---- MODULE Spec2Model ----
(***************************************************************************)
(* XMB navigation of VSingerXrossPlayer: the grouping builder (useData),   *)
(* the wrap-around cursor hook (useXMBNavigation), the pivot of the React  *)
(* App (rotateToIndex, handlePivot) and the d3 NavigationController.       *)
(*                                                                         *)
(* Arrays are sequences; JavaScript indices are 0-based, so the element    *)
(* at JavaScript index k of a sequence s is s[k + 1].  One key event is    *)
(* one action: the handler, the re-render and the effects that follow it   *)
(* (the selectedItem sync of App) are complete before the next key event.  *)
(***************************************************************************)
EXTENDS Integers, Sequences, FiniteSets, Bags, TLC

\* ---------------------------------------------------------------- bounds
MaxVideos == 3
MaxSingers == 1
MaxLen == 3
MaxIndex == 4

\* ------------------------------------------------------- input alphabets
\* song_title of an ApiVideo ("" is the absent title) and its video_title
SongTitles == {"", "A"}
VideoTitles == {"B"}
\* v.singers of an ApiVideo: absent (the singer is then 'Unknown') or one name
VideoSingers == {<<>>, <<"s1">>}
\* singer names of the /singers endpoint
SingerNames == {"s1", "s2"}
\* singers of the master: one without videos, and one whose id is not its
\* name but the name of the default singer
MasterSingers ==
  {[id |-> "s2", name |-> "s2"], [id |-> "Unknown", name |-> "s1"]}
\* reference songs of the master: one of a master singer, one whose
\* singer_id "zz" is no singer at all
ReferenceSongs ==
  {[title |-> "B", singer_id |-> "s2"], [title |-> "A", singer_id |-> "zz"]}
\* elements of the arrays handed to rotateToIndex on its own
Elements == {"a", "b", "c"}

SeqsUpTo(S, n) == UNION {[1..k -> S] : k \in 0..n}

\* ------------------------------------------------------------ JavaScript
\* a % b of JavaScript for b > 0: the result has the sign of a
JsRem(a, b) == IF a >= 0 THEN a % b ELSE -((-a) % b)

Min(a, b) == IF a <= b THEN a ELSE b
Max(a, b) == IF a >= b THEN a ELSE b

\* the value of a missing item and of a missing category
UndefinedItem == [id |-> -1, title |-> "undefined", singer_id |-> "undefined"]
UndefinedCategory == [id |-> <<"undefined", "">>, title |-> "undefined", items |-> <<>>]

\* arr[k] of JavaScript: undef outside the array
At(arr, k, undef) == IF k >= 0 /\ k < Len(arr) THEN arr[k + 1] ELSE undef

\* the elements of an array
Range(arr) == {arr[k] : k \in 1..Len(arr)}

\* Array.prototype.findIndex, the predicate given as the set of the
\* elements it accepts: the first index holding one, -1 when there is none
findIndex(arr, accepted) ==
  LET hits == {k \in 0..(Len(arr) - 1) : arr[k + 1] \in accepted}
  IN IF hits = {} THEN -1 ELSE CHOOSE k \in hits : \A j \in hits : k <= j

\* Array.prototype.filter, the predicate given as the set of the elements
\* it accepts: those elements in the order of the array
filter(arr, accepted) ==
  LET Accepts(e) == e \in accepted
  IN SelectSeq(arr, Accepts)

\* the distinct values ordered by their last occurrence instead
uniqueInOrder_lastSeen(arr) ==
  LET last == {k \in 1..Len(arr) : \A j \in (k + 1)..Len(arr) : arr[j] # arr[k]}
  IN [i \in 1..Cardinality(last) |->
        arr[CHOOSE k \in last : Cardinality({j \in last : j < k}) = i - 1]]

\* Array.from(new Set(arr)): the distinct values in first-seen order
RECURSIVE uniqueInOrder(_)
uniqueInOrder(arr) ==
  IF arr = <<>> THEN <<>>
  ELSE LET init == uniqueInOrder(SubSeq(arr, 1, Len(arr) - 1))
           last == arr[Len(arr)]
       IN IF \E k \in 1..Len(init) : init[k] = last THEN init
          ELSE Append(init, last)

\* ------------------------------------------------------ grouping builder
\* a singer record built from a name
SingerOfName(name) == [id |-> name, name |-> name]

\* songTitle = v.song_title || v.video_title
songTitle(v) == IF v.song_title # "" THEN v.song_title ELSE v.video_title

\* v.singers && v.singers.length > 0 ? v.singers[0] : 'Unknown'
primarySingerName(v) == IF Len(v.singers) > 0 THEN v.singers[1] ELSE "Unknown"

\* singerMap after the /singers endpoint: a Map keyed by name keeps the
\* position of the first insertion
singerMapOfApi(apiSingers) ==
  LET names == uniqueInOrder(apiSingers)
  IN [k \in 1..Len(names) |-> SingerOfName(names[k])]

\* ensureSinger: return the singer of that name (singerMap.has(name) in
\* the /singers variant, singers.find(s => s.name === name) in the master
\* variant), else add {id: name, name} at the end
ensureSinger(singers, name) ==
  IF \E k \in 1..Len(singers) : singers[k].name = name THEN singers
  ELSE Append(singers, SingerOfName(name))

\* the singer ensureSinger returns: the first one with that name
singerNamed(singers, name) ==
  singers[CHOOSE k \in 1..Len(singers) :
            /\ singers[k].name = name
            /\ \A j \in 1..(k - 1) : singers[j].name # name]

\* apiVideos.map(v => ...) with its side effect on the singer list
RECURSIVE convertVideos(_, _, _, _)
convertVideos(apiVideos, k, singers, songs) ==
  IF k > Len(apiVideos) THEN [songs |-> songs, singers |-> singers]
  ELSE LET v == apiVideos[k]
           name == primarySingerName(v)
           singers2 == ensureSinger(singers, name)
           singer == singerNamed(singers2, name)
           song == [id |-> k, title |-> songTitle(v), singer_id |-> singer.id]
       IN convertVideos(apiVideos, k + 1, singers2, Append(songs, song))

\* buildDataFromBackend, /singers variant
buildDataFromSingers(apiVideos, apiSingers) ==
  convertVideos(apiVideos, 1, singerMapOfApi(apiSingers), <<>>)

\* buildDataFromBackend, master variant: without videos the reference
\* songs of the master are the songs
buildDataFromBackend(apiVideos, masterSingers, referenceSongs) ==
  IF Len(apiVideos) = 0
  THEN [songs |-> referenceSongs, singers |-> masterSingers]
  ELSE convertVideos(apiVideos, 1, masterSingers, <<>>)

\* Mode A: one category per distinct title
songsData(songList) ==
  LET titles == [k \in 1..Len(songList) |-> songList[k].title]
      uniqueTitles == uniqueInOrder(titles)
  IN [k \in 1..Len(uniqueTitles) |->
        LET title == uniqueTitles[k]
        IN [id |-> <<"cat_song", title>>, title |-> title,
            items |-> filter(songList, {s \in Range(songList) : s.title = title})]]

\* Mode B: one category per entry of the singer list
singersData(songList, singersList) ==
  [k \in 1..Len(singersList) |->
     LET singer == singersList[k]
     IN [id |-> <<"cat_singer", singer.id>>, title |-> singer.name,
         items |-> filter(songList,
                          {s \in Range(songList) : s.singer_id = singer.id})]]

\* ------------------------------------------------------------ rotation
\* rotateToIndex that shifts the elements the wrong way round
rotateToIndex_wrongWay(items, fromIndex, toIndex, undef) ==
  LET length == Len(items) IN
  IF length = 0 THEN items
  ELSE LET normalizedTo == JsRem(JsRem(toIndex, length) + length, length)
           offset == JsRem(normalizedTo - fromIndex + length, length)
       IN [i \in 1..length |-> At(items, JsRem((i - 1) + offset, length), undef)]

\* rotateToIndex whose source index is not brought back into the array
rotateToIndex_noWrap(items, fromIndex, toIndex, undef) ==
  LET length == Len(items) IN
  IF length = 0 THEN items
  ELSE LET normalizedTo == JsRem(JsRem(toIndex, length) + length, length)
           offset == JsRem(normalizedTo - fromIndex + length, length)
       IN [i \in 1..length |-> At(items, JsRem((i - 1) - offset, length), undef)]

\* rotateToIndex that shifts by toIndex whatever fromIndex is
rotateToIndex_absolute(items, fromIndex, toIndex, undef) ==
  LET length == Len(items) IN
  IF length = 0 THEN items
  ELSE LET offset == JsRem(JsRem(toIndex, length) + length, length)
       IN [i \in 1..length |->
             At(items, JsRem((i - 1) - offset + length, length), undef)]

\* rotateToIndex: a new array, the element at fromIndex moved to toIndex
\* (undef is the value JavaScript reads outside the array)
rotateToIndex(items, fromIndex, toIndex, undef) ==
  LET length == Len(items) IN
  IF length = 0 THEN items
  ELSE LET normalizedTo == JsRem(JsRem(toIndex, length) + length, length)
           offset == JsRem(normalizedTo - fromIndex + length, length)
       IN [i \in 1..length |->
             At(items, JsRem((i - 1) - offset + length, length), undef)]

\* the input array after an in-place rotation
itemsAfterRotate_inPlace(items, fromIndex, toIndex) ==
  rotateToIndex(items, fromIndex, toIndex, "undefined")

\* the input array after the call: rotateToIndex writes to result only
itemsAfterRotate(items, fromIndex, toIndex) == items

\* whether rotateToIndex returns its argument itself rather than a new array
rotateToIndexReturnsInput(items, fromIndex, toIndex) == Len(items) = 0

\* the rotated items assigned to the category object of the grouping
replacesInPlace == FALSE

\* rotatedCategories[currentX] = {...targetCategory, items: rotatedItems}:
\* whether the rotated items go into a new category object (the rotated
\* array shares its category objects with the grouping)
replacesByCopy == TRUE

\* ------------------------------------------------------------------ state
VARIABLES
  frontend,          \* what runs: "app" (App with the hook and the pivot), "hook"
                     \* (the hook on a fixed category list), "d3"
                     \* (NavigationController), "rotate" (rotateToIndex alone)
  songs,             \* the Song list the groupings were built from
  singers,           \* the singer list of useData
  songCategories,    \* song-centric grouping
  singerCategories,  \* singer-centric grouping
  backend,           \* what the backend answers while useData loads ("build")
  loading,           \* useData's loading flag
  mode,              \* AxisMode of App
  displayCategories, \* the categories handed to the hook
  displayRef,        \* which array displayCategories is: a grouping or a fresh one
  cursor,            \* cursor of useXMBNavigation
  threw,             \* the last key event ended in an uncaught TypeError
  lastEvent,         \* the last key event: the key for "hook", "Arrow" or "Tab" for "app"
  prevMode,          \* mode before the last key event
  prevItem,          \* the current item before the last key event ("hook", "d3");
                     \* for "app" only when that key was Tab
  tabRun,            \* number of Tab events since the last other event, capped at 2
  runItem,           \* currentItem before the first Tab of that run
  prevCursor,        \* cursor before the last key event ("legacy")
  navCategories,     \* NavigationController.categories
  navState,          \* NavigationController.state
  isEnabled,         \* NavigationController.isEnabled
  navCalls,          \* notification cycles run by the last event
  navNotified,       \* what the last notification cycle passed to the listeners
  navPrev,           \* NavigationController.state before the last event
  rotItems, rotFrom, rotTo, rotCalled, rotResult,
  videos,            \* Main: the queue state handed to insertVideos
  queue,             \* insertVideos: its local queue
  video,             \* insertVideos: the video shifted last (0 before the first)
  generator,         \* insertVideos: where the generator stands
  yielded,           \* waitingQueueCounts of the value the generator handed out last
  queueStatus,       \* consumer: queueStatus.waitingQueueCounts
  insertCount,       \* Main: insertCount
  progress,          \* consumer: where the progress loop stands
  response,          \* what the last playlistItems.insert answered
  firstAttempts,     \* the videos in the order of their first attempt
  dropped,           \* the videos whose attempt ended without code 500
  prevYielded        \* waitingQueueCounts handed out before the last one

reactVars == <<mode, displayCategories, displayRef, cursor, threw, lastEvent,
               prevMode, prevItem, tabRun, runItem, prevCursor>>
dataVars == <<frontend, songs, singers, songCategories, singerCategories,
             backend, loading>>
navVars == <<navCategories, navState, isEnabled, navCalls, navNotified, navPrev>>
rotVars == <<rotItems, rotFrom, rotTo, rotCalled, rotResult>>
insVars == <<videos, queue, video, generator, yielded, queueStatus, insertCount,
            progress, response, firstAttempts, dropped, prevYielded>>
vars == <<frontend, songs, singers, songCategories, singerCategories,
          backend, loading,
          mode, displayCategories, displayRef, cursor, threw, lastEvent,
          prevMode, prevItem, tabRun, runItem, prevCursor,
          navCategories, navState, isEnabled, navCalls, navNotified, navPrev,
          rotItems, rotFrom, rotTo, rotCalled, rotResult,
          videos, queue, video, generator, yielded, queueStatus, insertCount,
          progress, response, firstAttempts, dropped, prevYielded>>


\* ------------------------------------------------- useXMBNavigation (hook)
\* categories[cursor.x]?.items[cursor.y]
currentItem(categories, cur) ==
  At(At(categories, cur.x, UndefinedCategory).items, cur.y, UndefinedItem)

\* targetCategory?.items.length ?? 0
itemsLengthOf(categories, x) == Len(At(categories, x, UndefinedCategory).items)

moveLeft(categories, prev) ==
  LET length == Len(categories) IN
  IF length = 0 THEN prev
  ELSE LET newX == JsRem(prev.x - 1 + length, length)
           itemsLength == itemsLengthOf(categories, newX)
           newY == IF itemsLength > 0 THEN Min(prev.y, itemsLength - 1) ELSE 0
       IN [x |-> newX, y |-> newY]

\* moveRight that stops at the last category instead of wrapping
moveRight_clamped(categories, prev) ==
  LET length == Len(categories) IN
  IF length = 0 THEN prev
  ELSE LET newX == Min(length - 1, prev.x + 1)
           itemsLength == itemsLengthOf(categories, newX)
           newY == IF itemsLength > 0 THEN Min(prev.y, itemsLength - 1) ELSE 0
       IN [x |-> newX, y |-> newY]

\* moveRight without the guard for the empty list: one step right, at
\* most to index length - 1
moveRight_unguarded(categories, prev) ==
  [x |-> Min(Len(categories) - 1, prev.x + 1), y |-> 0]

moveRight(categories, prev) ==
  LET length == Len(categories) IN
  IF length = 0 THEN prev
  ELSE LET newX == JsRem(prev.x + 1, length)
           itemsLength == itemsLengthOf(categories, newX)
           newY == IF itemsLength > 0 THEN Min(prev.y, itemsLength - 1) ELSE 0
       IN [x |-> newX, y |-> newY]

moveUp(categories, prev) ==
  LET currentCategory == At(categories, prev.x, UndefinedCategory) IN
  IF currentCategory = UndefinedCategory \/ Len(currentCategory.items) = 0 THEN prev
  ELSE LET length == Len(currentCategory.items)
       IN [prev EXCEPT !.y = JsRem(prev.y - 1 + length, length)]

moveDown(categories, prev) ==
  LET currentCategory == At(categories, prev.x, UndefinedCategory) IN
  IF currentCategory = UndefinedCategory \/ Len(currentCategory.items) = 0 THEN prev
  ELSE LET length == Len(currentCategory.items)
       IN [prev EXCEPT !.y = JsRem(prev.y + 1, length)]

\* ------------------------------------------------------- App.handlePivot
\* where handlePivot finds the selected song in the grouping of newMode:
\* baseX by category title (songs) or category id (singers), baseY by
\* singer_id (songs) or title (singers); -1 when not found
locate(songItem, newMode, baseCategories) ==
  LET baseX ==
        IF newMode = "songs"
        THEN findIndex(baseCategories,
                       {c \in Range(baseCategories) : c.title = songItem.title})
        ELSE findIndex(baseCategories,
                       {c \in Range(baseCategories) :
                          c.id = <<"cat_singer", songItem.singer_id>>})
      items == baseCategories[baseX + 1].items
      baseY ==
        IF baseX = -1 THEN -1
        ELSE IF newMode = "songs"
             THEN findIndex(items, {i \in Range(items) : i.singer_id = songItem.singer_id})
             ELSE findIndex(items, {i \in Range(items) : i.title = songItem.title})
  IN [baseX |-> baseX, baseY |-> baseY]

\* the grouping of the mode pivoted from, taken as the base
baseCategoriesOf_swapped(newMode, songCats, singerCats) ==
  IF newMode = "songs" THEN singerCats ELSE songCats

\* newMode === "songs" ? songCategories : singerCategories
baseCategoriesOf(newMode, songCats, singerCats) ==
  IF newMode = "songs" THEN songCats ELSE singerCats

\* The result of one Tab: the new mode and displayed array, the groupings
\* (written through when the rotated array or the category written to is
\* the grouping's own), and whether the handler ended in a TypeError
\* (targetCategory undefined).
handlePivot(m, disp, ref, cur, songCats, singerCats) ==
  LET selectedItem == currentItem(disp, cur)
      same == [mode |-> m, displayCategories |-> disp, displayRef |-> ref,
               songCategories |-> songCats, singerCategories |-> singerCats,
               threw |-> FALSE]
      newMode == IF m = "songs" THEN "singers" ELSE "songs"
      baseCategories == baseCategoriesOf(newMode, songCats, singerCats)
      baseName == IF newMode = "songs" THEN "songCategories" ELSE "singerCategories"
      currentX == cur.x
      currentY == cur.y
      baseX == locate(selectedItem, newMode, baseCategories).baseX
      baseY == locate(selectedItem, newMode, baseCategories).baseY
  IN
  IF selectedItem = UndefinedItem THEN same
  ELSE IF Len(baseCategories) = 0 THEN same
  ELSE IF baseX = -1 \/ baseY = -1
       THEN [same EXCEPT !.mode = newMode, !.displayCategories = baseCategories,
                         !.displayRef = baseName]
  ELSE LET rotatedCategories ==
             rotateToIndex(baseCategories, baseX, currentX, UndefinedCategory)
           isBase == rotateToIndexReturnsInput(baseCategories, baseX, currentX)
           targetCategory == At(rotatedCategories, currentX, UndefinedCategory)
       IN
       IF targetCategory = UndefinedCategory THEN [same EXCEPT !.threw = TRUE]
       ELSE LET items == targetCategory.items
                n == Len(items)
                targetY == JsRem(JsRem(currentY, n) + n, n)
                rotatedItems == rotateToIndex(items, baseY, targetY, UndefinedItem)
                written ==
                  IF n > 0
                  THEN [rotatedCategories EXCEPT
                          ![currentX + 1] = [targetCategory EXCEPT !.items = rotatedItems]]
                  ELSE rotatedCategories
                baseAfter ==
                  IF isBase THEN written
                  ELSE IF n > 0 /\ ~replacesByCopy
                       THEN [baseCategories EXCEPT ![baseX + 1].items = rotatedItems]
                       ELSE baseCategories
            IN [mode |-> newMode,
                displayCategories |-> written,
                displayRef |-> IF isBase THEN baseName ELSE "fresh",
                songCategories |-> IF newMode = "songs" THEN baseAfter ELSE songCats,
                singerCategories |-> IF newMode = "singers" THEN baseAfter ELSE singerCats,
                threw |-> FALSE]

\* ------------------------------------------------------------- the inputs
ApiVideos ==
  [song_title : SongTitles, video_title : VideoTitles,
   singers : VideoSingers]

\* the reference songs of the master, their id the position in the list
referenceSongList(r) ==
  [k \in 1..Len(r) |-> [id |-> k, title |-> r[k].title, singer_id |-> r[k].singer_id]]

\* What buildDataFromBackend can return within the bounds.  The master
\* variant reads reference_songs as songs only when there is no video.
BuiltData ==
  {buildDataFromSingers(v, s) :
     v \in SeqsUpTo(ApiVideos, MaxVideos), s \in SeqsUpTo(SingerNames, MaxSingers)}
  \cup
  {buildDataFromBackend(v, ms, <<>>) :
     v \in SeqsUpTo(ApiVideos, MaxVideos) \ {<<>>},
     ms \in SeqsUpTo(MasterSingers, MaxSingers)}
  \cup
  {buildDataFromBackend(<<>>, ms, referenceSongList(r)) :
     ms \in SeqsUpTo(MasterSingers, MaxSingers),
     r \in SeqsUpTo(ReferenceSongs, MaxVideos)}

\* the answers of the backend are not kept once the data is loaded
NoBackend ==
  [variant |-> "none", videos |-> <<>>, singers |-> <<>>,
   master_singers |-> <<>>, reference_songs |-> <<>>]

\* useData after loadData
InitData ==
  \E d \in BuiltData :
    /\ backend = NoBackend
    /\ loading = FALSE
    /\ songs = d.songs
    /\ singers = d.singers
    /\ songCategories = songsData(d.songs)
    /\ singerCategories = singersData(d.songs, d.singers)

NavIdle ==
  /\ navCategories = <<>>
  /\ navState = [cursorX |-> 0, cursorY |-> 0]
  /\ isEnabled = TRUE
  /\ navCalls = 0
  /\ navNotified = [cursorX |-> 0, cursorY |-> 0, item |-> UndefinedItem]
  /\ navPrev = [cursorX |-> 0, cursorY |-> 0]

RotIdle ==
  /\ rotItems = <<>>
  /\ rotFrom = 0
  /\ rotTo = 0
  /\ rotCalled = FALSE
  /\ rotResult = <<>>

\* insertCount before any playlist was created
NullCount == [left |-> -1, total |-> -1]

\* no playlist is being filled
InsIdle ==
  /\ videos = <<>>
  /\ queue = <<>>
  /\ video = 0
  /\ generator = "none"
  /\ yielded = 0
  /\ queueStatus = 0
  /\ insertCount = NullCount
  /\ progress = "idle"
  /\ response = "none"
  /\ firstAttempts = <<>>
  /\ dropped = {}
  /\ prevYielded = 0

\* App after the data is loaded and the initial-display effect has run:
\* mode "songs", displayCategories the song grouping when it is non-empty
ReactStart(m, categories, ref) ==
  /\ mode = m
  /\ displayCategories = categories
  /\ displayRef = ref
  /\ cursor = [x |-> 0, y |-> 0]
  /\ threw = FALSE
  /\ lastEvent = "none"
  /\ prevMode = m
  /\ prevItem = UndefinedItem
  /\ tabRun = 0
  /\ runItem = UndefinedItem
  /\ prevCursor = [x |-> 0, y |-> 0]

Init ==
  /\ frontend = "app"
  /\ InitData
  /\ ReactStart("songs", songCategories,
                IF Len(songCategories) > 0 THEN "songCategories" ELSE "initial")
  /\ NavIdle
  /\ RotIdle
  /\ InsIdle

\* ------------------------------------------------- key events of the App
\* an arrow key: the hook's setCursor(prev => ...), then the re-render
ArrowKey(key, newCursor) ==
  /\ frontend \in {"app", "hook"}
  /\ cursor' = newCursor
  /\ lastEvent' = IF frontend = "hook" THEN key ELSE "Arrow"
  /\ prevMode' = mode
  /\ prevItem' = IF frontend = "hook" THEN currentItem(displayCategories, cursor)
                 ELSE UndefinedItem
  /\ tabRun' = 0
  /\ runItem' = UndefinedItem
  /\ UNCHANGED prevCursor
  /\ threw' = FALSE
  /\ UNCHANGED <<mode, displayCategories, displayRef>>
  /\ UNCHANGED <<dataVars, navVars, rotVars, insVars>>

KeyArrowLeft == ArrowKey("ArrowLeft", moveLeft(displayCategories, cursor))
KeyArrowRight == ArrowKey("ArrowRight", moveRight(displayCategories, cursor))
KeyArrowUp == ArrowKey("ArrowUp", moveUp(displayCategories, cursor))
KeyArrowDown == ArrowKey("ArrowDown", moveDown(displayCategories, cursor))

\* a pivot that puts the cursor back to the origin
cursorAfterPivot_reset(cur) == [x |-> 0, y |-> 0]

\* the cursor of the hook after handlePivot, which has no setCursor call
cursorAfterPivot(cur) == cur

\* Tab: handlePivot; the cursor is not touched
KeyTab ==
  /\ frontend = "app"
  /\ LET r == handlePivot(mode, displayCategories, displayRef, cursor,
                          songCategories, singerCategories)
     IN /\ mode' = r.mode
        /\ displayCategories' = r.displayCategories
        /\ displayRef' = r.displayRef
        /\ songCategories' = r.songCategories
        /\ singerCategories' = r.singerCategories
        /\ threw' = r.threw
  /\ lastEvent' = "Tab"
  /\ prevMode' = mode
  /\ prevItem' = currentItem(displayCategories, cursor)
  /\ tabRun' = Min(tabRun + 1, 2)
  /\ runItem' = IF tabRun = 0 THEN currentItem(displayCategories, cursor) ELSE runItem
  /\ UNCHANGED prevCursor
  /\ cursor' = cursorAfterPivot(cursor)
  /\ UNCHANGED <<frontend, songs, singers, backend, loading>>
  /\ UNCHANGED <<navVars, rotVars, insVars>>

Next ==
  \/ KeyArrowLeft
  \/ KeyArrowRight
  \/ KeyArrowUp
  \/ KeyArrowDown
  \/ KeyTab

Spec == Init /\ [][Next]_vars


\* ---------------------------------------------------- NavigationController
\* getCurrentItem: null (UndefinedItem) outside the list or the category
getCurrentItem(categories, state) ==
  IF state.cursorX < 0 \/ state.cursorX >= Len(categories) THEN UndefinedItem
  ELSE LET category == categories[state.cursorX + 1]
       IN IF state.cursorY < 0 \/ state.cursorY >= Len(category.items)
          THEN UndefinedItem
          ELSE category.items[state.cursorY + 1]

\* Each move returns the state it stores and whether it went on to
\* notifyListeners (it does not after an early return).
\* moveLeft that resets the item index on every category change
navMoveLeft_resetY(categories, state) ==
  IF Len(categories) = 0 THEN [state |-> state, notifies |-> FALSE]
  ELSE LET newX == JsRem(state.cursorX - 1 + Len(categories), Len(categories))
       IN [state |-> [cursorX |-> newX, cursorY |-> 0], notifies |-> TRUE]

navMoveLeft(categories, state) ==
  IF Len(categories) = 0 THEN [state |-> state, notifies |-> FALSE]
  ELSE LET newX == JsRem(state.cursorX - 1 + Len(categories), Len(categories))
           itemsLength == itemsLengthOf(categories, newX)
           newY == IF itemsLength > 0 THEN Min(state.cursorY, itemsLength - 1) ELSE 0
       IN [state |-> [cursorX |-> newX, cursorY |-> newY], notifies |-> TRUE]

\* moveRight that skips the notification when the cursor did not change
navMoveRight_deduplicated(categories, state) ==
  IF Len(categories) = 0 THEN [state |-> state, notifies |-> FALSE]
  ELSE LET newX == JsRem(state.cursorX + 1, Len(categories))
           itemsLength == itemsLengthOf(categories, newX)
           newY == IF itemsLength > 0 THEN Min(state.cursorY, itemsLength - 1) ELSE 0
           next == [cursorX |-> newX, cursorY |-> newY]
       IN [state |-> next, notifies |-> next # state]

navMoveRight(categories, state) ==
  IF Len(categories) = 0 THEN [state |-> state, notifies |-> FALSE]
  ELSE LET newX == JsRem(state.cursorX + 1, Len(categories))
           itemsLength == itemsLengthOf(categories, newX)
           newY == IF itemsLength > 0 THEN Min(state.cursorY, itemsLength - 1) ELSE 0
       IN [state |-> [cursorX |-> newX, cursorY |-> newY], notifies |-> TRUE]

navMoveUp(categories, state) ==
  LET currentCategory == At(categories, state.cursorX, UndefinedCategory) IN
  IF currentCategory = UndefinedCategory \/ Len(currentCategory.items) = 0
  THEN [state |-> state, notifies |-> FALSE]
  ELSE LET length == Len(currentCategory.items)
       IN [state |-> [state EXCEPT !.cursorY = JsRem(state.cursorY - 1 + length, length)],
           notifies |-> TRUE]

\* moveDown that stops at the last item instead of wrapping
navMoveDown_clamped(categories, state) ==
  LET currentCategory == At(categories, state.cursorX, UndefinedCategory) IN
  IF currentCategory = UndefinedCategory \/ Len(currentCategory.items) = 0
  THEN [state |-> state, notifies |-> FALSE]
  ELSE LET length == Len(currentCategory.items)
       IN [state |-> [state EXCEPT !.cursorY = Min(length - 1, state.cursorY + 1)],
           notifies |-> TRUE]

navMoveDown(categories, state) ==
  LET currentCategory == At(categories, state.cursorX, UndefinedCategory) IN
  IF currentCategory = UndefinedCategory \/ Len(currentCategory.items) = 0
  THEN [state |-> state, notifies |-> FALSE]
  ELSE LET length == Len(currentCategory.items)
       IN [state |-> [state EXCEPT !.cursorY = JsRem(state.cursorY + 1, length)],
           notifies |-> TRUE]

\* a handler that skips the isEnabled test
handleKeyDown_alwaysEnabled(key, r) ==
  /\ frontend = "d3"
  /\ lastEvent' = key
  /\ IF r.notifies
     THEN /\ navState' = r.state
          /\ navCalls' = 1
          /\ navNotified' = [cursorX |-> r.state.cursorX, cursorY |-> r.state.cursorY,
                             item |-> getCurrentItem(navCategories, r.state)]
     ELSE /\ navState' = navState
          /\ navCalls' = 0
          /\ navNotified' = navNotified
  /\ prevItem' = getCurrentItem(navCategories, navState)
  /\ navPrev' = navState
  /\ UNCHANGED <<navCategories, isEnabled>>
  /\ UNCHANGED <<mode, displayCategories, displayRef, cursor, threw, prevMode,
                 tabRun, runItem, prevCursor>>
  /\ UNCHANGED <<dataVars, rotVars, insVars>>

\* handleKeyDown of the controller: nothing when disabled; else the move,
\* which stores the new state and then runs one notification cycle
handleKeyDown(key, r) ==
  /\ frontend = "d3"
  /\ lastEvent' = key
  /\ IF isEnabled /\ r.notifies
     THEN /\ navState' = r.state
          /\ navCalls' = 1
          /\ navNotified' = [cursorX |-> r.state.cursorX, cursorY |-> r.state.cursorY,
                             item |-> getCurrentItem(navCategories, r.state)]
     ELSE /\ navState' = navState
          /\ navCalls' = 0
          /\ navNotified' = navNotified
  /\ prevItem' = getCurrentItem(navCategories, navState)
  /\ navPrev' = navState
  /\ UNCHANGED <<navCategories, isEnabled>>
  /\ UNCHANGED <<mode, displayCategories, displayRef, cursor, threw, prevMode,
                 tabRun, runItem, prevCursor>>
  /\ UNCHANGED <<dataVars, rotVars, insVars>>

NavArrowLeft == handleKeyDown("ArrowLeft", navMoveLeft(navCategories, navState))
NavArrowRight == handleKeyDown("ArrowRight", navMoveRight(navCategories, navState))
NavArrowUp == handleKeyDown("ArrowUp", navMoveUp(navCategories, navState))
NavArrowDown == handleKeyDown("ArrowDown", navMoveDown(navCategories, navState))

\* enable() and disable(): the flag is written, nothing else; no listener
\* is called and no key is kept for later
setEnabled(name, flag) ==
  /\ frontend = "d3"
  /\ lastEvent' = name
  /\ isEnabled' = flag
  /\ navCalls' = 0
  /\ navPrev' = navState
  /\ prevItem' = getCurrentItem(navCategories, navState)
  /\ UNCHANGED <<navCategories, navState, navNotified>>
  /\ UNCHANGED <<mode, displayCategories, displayRef, cursor, threw, prevMode,
                 tabRun, runItem, prevCursor>>
  /\ UNCHANGED <<dataVars, rotVars, insVars>>

NavEnable == setEnabled("enable", TRUE)
NavDisable == setEnabled("disable", FALSE)

\* the cursor updateCategories stores for the new list: clamped into the
\* list and into the category it then points at
updateCategories_noClamp(categories, state) == state

updateCategories(categories, state) ==
  IF Len(categories) > 0
  THEN LET cursorX == Max(0, Min(state.cursorX, Len(categories) - 1))
           currentCat == categories[cursorX + 1]
           cursorY == IF Len(currentCat.items) > 0
                      THEN Max(0, Min(state.cursorY, Len(currentCat.items) - 1))
                      ELSE 0
       IN [cursorX |-> cursorX, cursorY |-> cursorY]
  ELSE [cursorX |-> 0, cursorY |-> 0]

\* controller.updateCategories(categories): the list is replaced, the
\* cursor clamped, then one notification cycle runs (enabled or not)
NavUpdateCategories(name, categories) ==
  /\ frontend = "d3"
  /\ lastEvent' = name
  /\ navCategories' = categories
  /\ navState' = updateCategories(categories, navState)
  /\ navCalls' = 1
  /\ navNotified' = [cursorX |-> navState'.cursorX, cursorY |-> navState'.cursorY,
                     item |-> getCurrentItem(categories, navState')]
  /\ prevItem' = getCurrentItem(navCategories, navState)
  /\ navPrev' = navState
  /\ UNCHANGED isEnabled
  /\ UNCHANGED <<mode, displayCategories, displayRef, cursor, threw, prevMode,
                 tabRun, runItem, prevCursor>>
  /\ UNCHANGED <<dataVars, rotVars, insVars>>

UpdateToSongs == NavUpdateCategories("updateCategories(songs)", songCategories)
UpdateToSingers == NavUpdateCategories("updateCategories(singers)", singerCategories)
UpdateToEmpty == NavUpdateCategories("updateCategories([])", <<>>)

\* new NavigationController(categories)
NavStart(categories) ==
  /\ navCategories = categories
  /\ navState = [cursorX |-> 0, cursorY |-> 0]
  /\ isEnabled = TRUE
  /\ navCalls = 0
  /\ navNotified = [cursorX |-> 0, cursorY |-> 0, item |-> UndefinedItem]
  /\ navPrev = [cursorX |-> 0, cursorY |-> 0]

\* ------------------------------------ the four moves on a fixed category list
\* The hook (as XMBContainer uses it) or the controller, built on either
\* grouping of the loaded data; only arrow keys arrive.
InitMoves ==
  /\ frontend \in {"hook", "d3"}
  /\ InitData
  /\ RotIdle
  /\ InsIdle
  /\ \E g \in {"songs", "singers"} :
       LET categories == IF g = "songs" THEN songCategories ELSE singerCategories
       IN IF frontend = "hook"
          THEN ReactStart(g, categories, "prop") /\ NavIdle
          ELSE ReactStart("songs", <<>>, "initial") /\ NavStart(categories)

NextMoves ==
  \/ KeyArrowLeft
  \/ KeyArrowRight
  \/ KeyArrowUp
  \/ KeyArrowDown
  \/ NavArrowLeft
  \/ NavArrowRight
  \/ NavArrowUp
  \/ NavArrowDown

SpecMoves == InitMoves /\ [][NextMoves]_vars

\* ------------------------------------------- NavigationController in use
\* A controller built on either grouping or on no category at all; arrow
\* keys arrive and the owner hands it another list.
InitController ==
  /\ frontend = "d3"
  /\ InitData
  /\ RotIdle
  /\ InsIdle
  /\ ReactStart("songs", <<>>, "initial")
  /\ \E categories \in {songCategories, singerCategories, <<>>} : NavStart(categories)

NextController ==
  \/ NavArrowLeft
  \/ NavArrowRight
  \/ NavArrowUp
  \/ NavArrowDown
  \/ UpdateToSongs
  \/ UpdateToSingers
  \/ UpdateToEmpty
  \/ NavEnable
  \/ NavDisable

SpecController == InitController /\ [][NextController]_vars

\* ------------------------- useXMBNavigation of src/hooks (clamping hook)
legacyMoveLeft(categories, prev) == [x |-> Max(0, prev.x - 1), y |-> 0]

legacyMoveRight(categories, prev) ==
  [x |-> Min(Len(categories) - 1, prev.x + 1), y |-> 0]

legacyMoveUp(categories, prev) == [prev EXCEPT !.y = Max(0, prev.y - 1)]

legacyMoveDown(categories, prev) ==
  LET currentCategory == At(categories, prev.x, UndefinedCategory) IN
  IF currentCategory = UndefinedCategory THEN prev
  ELSE [prev EXCEPT !.y = Min(Len(currentCategory.items) - 1, prev.y + 1)]

\* an arrow key handled by that hook
LegacyKey(key, newCursor) ==
  /\ frontend = "legacy"
  /\ cursor' = newCursor
  /\ prevCursor' = cursor
  /\ lastEvent' = key
  /\ prevItem' = currentItem(displayCategories, cursor)
  /\ UNCHANGED <<mode, displayCategories, displayRef, threw, prevMode, tabRun, runItem>>
  /\ UNCHANGED <<dataVars, navVars, rotVars, insVars>>

LegacyArrowLeft == LegacyKey("ArrowLeft", legacyMoveLeft(displayCategories, cursor))
LegacyArrowRight == LegacyKey("ArrowRight", legacyMoveRight(displayCategories, cursor))
LegacyArrowUp == LegacyKey("ArrowUp", legacyMoveUp(displayCategories, cursor))
LegacyArrowDown == LegacyKey("ArrowDown", legacyMoveDown(displayCategories, cursor))

\* the hook mounted on either grouping of the loaded data
InitLegacy ==
  /\ frontend = "legacy"
  /\ InitData
  /\ NavIdle
  /\ RotIdle
  /\ InsIdle
  /\ \E g \in {"songs", "singers"} :
       ReactStart(g, IF g = "songs" THEN songCategories ELSE singerCategories, "prop")

NextLegacy ==
  \/ LegacyArrowLeft
  \/ LegacyArrowRight
  \/ LegacyArrowUp
  \/ LegacyArrowDown

SpecLegacy == InitLegacy /\ [][NextLegacy]_vars

\* ------------------------------------------------------ useData loading
\* What the backend can answer within the bounds: the /videos and /singers
\* endpoints (part_009), the /videos and /master endpoints (part_010; the
\* reference songs matter only when there is no video), or a failure.
Backends ==
  {[variant |-> "singers", videos |-> v, singers |-> s,
    master_singers |-> <<>>, reference_songs |-> <<>>] :
     v \in SeqsUpTo(ApiVideos, MaxVideos), s \in SeqsUpTo(SingerNames, MaxSingers)}
  \cup
  {[variant |-> "master", videos |-> v, singers |-> <<>>,
    master_singers |-> ms, reference_songs |-> <<>>] :
     v \in SeqsUpTo(ApiVideos, MaxVideos) \ {<<>>},
     ms \in SeqsUpTo(MasterSingers, MaxSingers)}
  \cup
  {[variant |-> "master", videos |-> <<>>, singers |-> <<>>,
    master_singers |-> ms, reference_songs |-> r] :
     ms \in SeqsUpTo(MasterSingers, MaxSingers),
     r \in SeqsUpTo(ReferenceSongs, MaxVideos)}
  \cup
  {[variant |-> "unavailable", videos |-> <<>>, singers |-> <<>>,
    master_singers |-> <<>>, reference_songs |-> <<>>]}

\* useData mounted: nothing loaded yet
InitBuild ==
  /\ frontend = "build"
  /\ backend \in Backends
  /\ loading = TRUE
  /\ songs = <<>>
  /\ singers = <<>>
  /\ songCategories = <<>>
  /\ singerCategories = <<>>
  /\ ReactStart("songs", <<>>, "initial")
  /\ NavIdle
  /\ RotIdle
  /\ InsIdle

\* loadData once buildDataFromBackend has resolved to result: both
\* groupings are built from it and stored
loadData(result) ==
  /\ frontend = "build"
  /\ loading
  /\ songs' = result.songs
  /\ singers' = result.singers
  /\ songCategories' = songsData(result.songs)
  /\ singerCategories' = singersData(result.songs, result.singers)
  /\ loading' = FALSE
  /\ UNCHANGED <<frontend, backend>>
  /\ UNCHANGED <<reactVars, navVars, rotVars, insVars>>

LoadDataSingers ==
  /\ backend.variant = "singers"
  /\ loadData(buildDataFromSingers(backend.videos, backend.singers))

LoadDataMaster ==
  /\ backend.variant = "master"
  /\ loadData(buildDataFromBackend(backend.videos, backend.master_singers,
                                   referenceSongList(backend.reference_songs)))

\* buildDataFromBackend rejected: loadData logs and leaves everything empty
LoadDataFailed ==
  /\ frontend = "build"
  /\ loading
  /\ backend.variant = "unavailable"
  /\ loading' = FALSE
  /\ UNCHANGED <<frontend, backend, songs, singers, songCategories, singerCategories>>
  /\ UNCHANGED <<reactVars, navVars, rotVars, insVars>>

NextBuild ==
  \/ LoadDataSingers
  \/ LoadDataMaster
  \/ LoadDataFailed

SpecBuild == InitBuild /\ [][NextBuild]_vars

\* ---------------------------------------------------- rotateToIndex alone
\* rotateToIndex called on an array with an index of one of its elements
\* (0 for the empty array) and any target index
InitRotate ==
  /\ frontend = "rotate"
  /\ backend = NoBackend
  /\ loading = FALSE
  /\ songs = <<>>
  /\ singers = <<>>
  /\ songCategories = <<>>
  /\ singerCategories = <<>>
  /\ ReactStart("songs", <<>>, "initial")
  /\ NavIdle
  /\ rotItems \in SeqsUpTo(Elements, MaxLen)
  /\ rotFrom \in 0..Max(Len(rotItems) - 1, 0)
  /\ rotTo \in (-MaxIndex)..MaxIndex
  /\ rotCalled = FALSE
  /\ rotResult = <<>>
  /\ InsIdle

RotateCall ==
  /\ frontend = "rotate"
  /\ ~rotCalled
  /\ rotCalled' = TRUE
  /\ rotResult' = rotateToIndex(rotItems, rotFrom, rotTo, "undefined")
  /\ rotItems' = itemsAfterRotate(rotItems, rotFrom, rotTo)
  /\ UNCHANGED <<rotFrom, rotTo>>
  /\ UNCHANGED <<dataVars, reactVars, navVars, insVars>>

NextRotate == RotateCall

SpecRotate == InitRotate /\ [][NextRotate]_vars


\* ------------------------------------- insertVideos (playlist insertion)
\* most videos in the queue handed to insertVideos
MaxQueue == 3

\* the ids of the videos; a queue holds a video once
VideoIds == 1..MaxQueue

\* what playlistItems.insert may answer: the inserted item, or an error
\* object with a code
Responses == {"item", "500", "403"}

\* insertPlaylist: the promise rejects with the response when it has a
\* code, and resolves otherwise
insertPlaylist(r) ==
  IF r \in {"500", "403"}
  THEN [settled |-> "rejected", code |-> r]
  ELSE [settled |-> "resolved", code |-> "none"]

\* every rejected video goes back to the queue
queueAfterAttempt_retryAll(q, v, outcome) ==
  IF outcome.settled = "rejected" THEN Append(q, v) ELSE q

\* try { await insertPlaylist } catch { if (e.code === 500) queue.push(video) }
queueAfterAttempt(q, v, outcome) ==
  IF outcome.settled = "rejected" /\ outcome.code = "500" THEN Append(q, v) ELSE q

\* while (queue.length > 0) yield {waitingQueueCounts}; else return it
loopTest(q) ==
  IF Len(q) > 0
  THEN [generator |-> "yielded", waitingQueueCounts |-> Len(q)]
  ELSE [generator |-> "returned", waitingQueueCounts |-> Len(q)]

\* the callback of playlists.insert up to its first await: the counts are
\* set, the generator is made and, unless the queue is empty, asked for its
\* first value, which runs it to its first yield
PlaylistCreated ==
  /\ frontend = "insert"
  /\ progress = "idle"
  /\ queueStatus' = Len(videos)
  /\ insertCount' = [left |-> Len(videos), total |-> Len(videos)]
  /\ IF Len(videos) > 0
     THEN LET t == loopTest(videos)
          IN /\ queue' = videos
             /\ generator' = t.generator
             /\ yielded' = t.waitingQueueCounts
             /\ prevYielded' = Len(videos)
             /\ progress' = "awaiting"
     ELSE /\ generator' = "created"
          /\ progress' = "done"
          /\ UNCHANGED <<queue, yielded, prevYielded>>
  /\ UNCHANGED <<videos, video, response, firstAttempts, dropped>>
  /\ UNCHANGED <<dataVars, reactVars, navVars, rotVars>>

\* the consumer after await r.next(): it copies the value and sets the
\* counts; when the count is positive it asks for the next value, which
\* makes the generator shift a video and call insertPlaylist
ProgressStep ==
  /\ frontend = "insert"
  /\ progress = "awaiting"
  /\ generator \in {"yielded", "returned"}
  /\ queueStatus' = yielded
  /\ insertCount' = [left |-> yielded, total |-> Len(videos)]
  /\ IF yielded > 0
     THEN /\ video' = Head(queue)
          /\ queue' = Tail(queue)
          /\ generator' = "awaiting"
          /\ firstAttempts' = IF Head(queue) \in Range(firstAttempts)
                              THEN firstAttempts
                              ELSE Append(firstAttempts, Head(queue))
          /\ UNCHANGED progress
     ELSE /\ progress' = "done"
          /\ UNCHANGED <<video, queue, generator, firstAttempts>>
  /\ UNCHANGED <<videos, yielded, prevYielded, response, dropped>>
  /\ UNCHANGED <<dataVars, reactVars, navVars, rotVars>>

\* the answer of playlistItems.insert arrives: the generator goes on after
\* its await, through the catch, to the loop test and to its next yield or
\* its return
InsertSettled(r) ==
  /\ frontend = "insert"
  /\ generator = "awaiting"
  /\ LET q == queueAfterAttempt(queue, video, insertPlaylist(r))
         t == loopTest(q)
     IN /\ queue' = q
        /\ generator' = t.generator
        /\ yielded' = t.waitingQueueCounts
  /\ prevYielded' = yielded
  /\ response' = r
  /\ dropped' = IF r = "500" THEN dropped ELSE dropped \cup {video}
  /\ UNCHANGED <<videos, video, queueStatus, insertCount, progress, firstAttempts>>
  /\ UNCHANGED <<dataVars, reactVars, navVars, rotVars>>

InsertResolved == InsertSettled("item")
InsertRejected500 == InsertSettled("500")
InsertRejectedOther == InsertSettled("403")

\* the user has a queue of distinct videos and the token callback has asked
\* for a playlist
InitInsert ==
  /\ frontend = "insert"
  /\ backend = NoBackend
  /\ loading = FALSE
  /\ songs = <<>>
  /\ singers = <<>>
  /\ songCategories = <<>>
  /\ singerCategories = <<>>
  /\ ReactStart("songs", <<>>, "initial")
  /\ NavIdle
  /\ RotIdle
  /\ videos \in {q \in SeqsUpTo(VideoIds, MaxQueue) :
                   \A i, j \in 1..Len(q) : i # j => q[i] # q[j]}
  /\ queue = <<>>
  /\ video = 0
  /\ generator = "none"
  /\ yielded = 0
  /\ queueStatus = 0
  /\ insertCount = NullCount
  /\ progress = "idle"
  /\ response = "none"
  /\ firstAttempts = <<>>
  /\ dropped = {}
  /\ prevYielded = 0

NextInsert ==
  \/ PlaylistCreated
  \/ ProgressStep
  \/ InsertResolved
  \/ InsertRejected500
  \/ InsertRejectedOther

SpecInsert == InitInsert /\ [][NextInsert]_vars

\* the event loop runs every continuation that is ready and the API answers
\* every request; no video is answered with code 500 forever
SpecInsertFair ==
  /\ SpecInsert
  /\ WF_vars(PlaylistCreated)
  /\ WF_vars(ProgressStep)
  /\ WF_vars(InsertResolved \/ InsertRejected500 \/ InsertRejectedOther)
  /\ \A v \in VideoIds :
       SF_vars((InsertResolved \/ InsertRejectedOther) /\ video = v)


\* ================================================================ claims
\* two items are the same performance: same title and same singer_id
SamePerformance(a, b) == a.title = b.title /\ a.singer_id = b.singer_id

\* the grouping named by a mode
groupingOf(m) == IF m = "songs" THEN songCategories ELSE singerCategories

\* the cursor is inside the category list, and inside the category under it
\* (at 0 when that category is empty)
InBounds(categories, cur) ==
  /\ cur.x >= 0 /\ cur.x < Len(categories)
  /\ LET n == itemsLengthOf(categories, cur.x)
     IN IF n > 0 THEN cur.y >= 0 /\ cur.y < n ELSE cur.y = 0

\* the (title, singer_id) pair of the item occurs once among the songs
UniquePair(item) ==
  Cardinality({k \in 1..Len(songs) : SamePerformance(songs[k], item)}) = 1

\* every song names a singer of the singer list, so that every performance
\* is in both groupings and the lookup of the pivot finds it
SingersKnown ==
  \A k \in 1..Len(songs) : \E j \in 1..Len(singers) : singers[j].id = songs[k].singer_id

\* C1: if a performance is under the cursor when Tab is pressed, the item
\* under the cursor right after the pivot is the same performance (same
\* title and singer_id).  Stated for data in which the pivot finds every
\* performance in the target grouping.
C1_PivotPreservesSelection ==
  (SingersKnown /\ lastEvent = "Tab" /\ prevItem # UndefinedItem)
    => SamePerformance(currentItem(displayCategories, cursor), prevItem)

\* C2: after any sequence of moves and pivots, whenever displayCategories is
\* non-empty the cursor is in bounds: 0 <= x < number of categories, and
\* 0 <= y < number of items of category x, or y = 0 when it has none.
\* Stated for data in which the pivot finds every performance.
C2_CursorInBounds ==
  (SingersKnown /\ Len(displayCategories) > 0) => InBounds(displayCategories, cursor)

\* C3: with a performance P of unique (title, singer) pair under the cursor,
\* Tab followed directly by Tab leaves P under the cursor.  Stated for data
\* in which the pivot finds every performance.
C3_PivotRoundTrip ==
  (SingersKnown /\ tabRun = 2 /\ runItem # UndefinedItem /\ UniquePair(runItem))
    => SamePerformance(currentItem(displayCategories, cursor), runItem)


\* n moves in a row on the same category list
RECURSIVE moveRightTimes(_, _, _)
moveRightTimes(categories, cur, n) ==
  IF n = 0 THEN cur ELSE moveRightTimes(categories, moveRight(categories, cur), n - 1)

RECURSIVE navMoveRightTimes(_, _, _)
navMoveRightTimes(categories, state, n) ==
  IF n = 0 THEN state
  ELSE navMoveRightTimes(categories, navMoveRight(categories, state).state, n - 1)

RECURSIVE moveDownTimes(_, _, _)
moveDownTimes(categories, cur, n) ==
  IF n = 0 THEN cur ELSE moveDownTimes(categories, moveDown(categories, cur), n - 1)

RECURSIVE navMoveDownTimes(_, _, _)
navMoveDownTimes(categories, state, n) ==
  IF n = 0 THEN state
  ELSE navMoveDownTimes(categories, navMoveDown(categories, state).state, n - 1)

\* the item counts of the categories
itemCounts(categories) == [k \in 1..Len(categories) |-> Len(categories[k].items)]

\* C4: with N > 0 categories, N moveRight in a row bring categoryIndex back
\* to where it started, and moveRight on the last category goes to 0; in
\* the hook and in NavigationController.
C4_HorizontalWrapAround ==
  /\ (frontend = "hook" /\ Len(displayCategories) > 0) =>
       LET N == Len(displayCategories) IN
       /\ moveRightTimes(displayCategories, cursor, N).x = cursor.x
       /\ cursor.x = N - 1 => moveRight(displayCategories, cursor).x = 0
  /\ (frontend = "d3" /\ Len(navCategories) > 0) =>
       LET N == Len(navCategories) IN
       /\ navMoveRightTimes(navCategories, navState, N).cursorX = navState.cursorX
       /\ navState.cursorX = N - 1 =>
            navMoveRight(navCategories, navState).state.cursorX = 0

\* the hook has just wrapped from the last of three categories to the first
C4_Witness ==
  /\ frontend = "hook"
  /\ lastEvent = "ArrowRight"
  /\ Len(displayCategories) = 3
  /\ cursor.x = 0
  /\ prevItem = currentItem(displayCategories, [x |-> 2, y |-> 0])
  /\ prevItem # UndefinedItem

\* C5: in a category with M > 0 items, M moveDown in a row bring the cursor
\* back to where it started and none of them changes categoryIndex; with
\* M = 1 moveUp and moveDown leave the cursor where it is; in the hook and
\* in NavigationController.
C5_VerticalWrapAround ==
  /\ frontend = "hook" =>
       LET M == itemsLengthOf(displayCategories, cursor.x) IN
       M > 0 =>
         /\ moveDownTimes(displayCategories, cursor, M) = cursor
         /\ \A k \in 1..M : moveDownTimes(displayCategories, cursor, k).x = cursor.x
         /\ M = 1 => /\ moveUp(displayCategories, cursor) = cursor
                     /\ moveDown(displayCategories, cursor) = cursor
  /\ frontend = "d3" =>
       LET M == itemsLengthOf(navCategories, navState.cursorX) IN
       M > 0 =>
         /\ navMoveDownTimes(navCategories, navState, M) = navState
         /\ \A k \in 1..M :
              navMoveDownTimes(navCategories, navState, k).cursorX = navState.cursorX
         /\ M = 1 => /\ navMoveUp(navCategories, navState).state = navState
                     /\ navMoveDown(navCategories, navState).state = navState

\* the controller has just wrapped from the last of three items to the first
C5_Witness ==
  /\ frontend = "d3"
  /\ lastEvent = "ArrowDown"
  /\ navCalls = 1
  /\ itemsLengthOf(navCategories, navState.cursorX) = 3
  /\ navState.cursorY = 0
  /\ prevItem = getCurrentItem(navCategories, [navState EXCEPT !.cursorY = 2])

\* the item index a category change must give: the old one, clamped to the
\* new category, 0 when that is empty
clampedY(categories, newX, oldY) ==
  LET newCount == itemsLengthOf(categories, newX)
  IN IF newCount > 0 THEN Min(oldY, newCount - 1) ELSE 0

\* C6: moveLeft and moveRight go to the neighbouring category (cyclically)
\* with itemIndex = min(old itemIndex, newCount - 1), or 0 when the new
\* category is empty; over item counts [2,1] and cursor (0,1), moveRight
\* gives (1,0) and a second moveRight gives (0,0); in the hook and in
\* NavigationController.
C6_ClampOnCategoryChange ==
  /\ (frontend = "hook" /\ Len(displayCategories) > 0) =>
       LET N == Len(displayCategories)
           right == (cursor.x + 1) % N
           left == (cursor.x + N - 1) % N
       IN /\ moveRight(displayCategories, cursor)
               = [x |-> right, y |-> clampedY(displayCategories, right, cursor.y)]
          /\ moveLeft(displayCategories, cursor)
               = [x |-> left, y |-> clampedY(displayCategories, left, cursor.y)]
          /\ (itemCounts(displayCategories) = <<2, 1>> /\ cursor = [x |-> 0, y |-> 1]) =>
               /\ moveRight(displayCategories, cursor) = [x |-> 1, y |-> 0]
               /\ moveRightTimes(displayCategories, cursor, 2) = [x |-> 0, y |-> 0]
  /\ (frontend = "d3" /\ Len(navCategories) > 0) =>
       LET N == Len(navCategories)
           right == (navState.cursorX + 1) % N
           left == (navState.cursorX + N - 1) % N
       IN /\ navMoveRight(navCategories, navState).state
               = [cursorX |-> right,
                  cursorY |-> clampedY(navCategories, right, navState.cursorY)]
          /\ navMoveLeft(navCategories, navState).state
               = [cursorX |-> left,
                  cursorY |-> clampedY(navCategories, left, navState.cursorY)]
          /\ (itemCounts(navCategories) = <<2, 1>>
                /\ navState = [cursorX |-> 0, cursorY |-> 1]) =>
               /\ navMoveRight(navCategories, navState).state
                    = [cursorX |-> 1, cursorY |-> 0]
               /\ navMoveRightTimes(navCategories, navState, 2)
                    = [cursorX |-> 0, cursorY |-> 0]

\* over item counts [2,1] the controller has just moved left from (0,1) to
\* (1,0): the item index was clamped from 1 to 0
C6_Witness ==
  /\ frontend = "d3"
  /\ lastEvent = "ArrowLeft"
  /\ itemCounts(navCategories) = <<2, 1>>
  /\ navState = [cursorX |-> 1, cursorY |-> 0]
  /\ prevItem = getCurrentItem(navCategories, [cursorX |-> 0, cursorY |-> 1])


\* how often e occurs in the array
occurrences(arr, e) == Cardinality({k \in 1..Len(arr) : arr[k] = e})

\* C7: for a non-empty array of length n, fromIndex in 0..n-1 and any integer
\* toIndex, with offset = ((toIndex mod n) - fromIndex + n) mod n, the result
\* r has r[i] = items[(i - offset + n) mod n] for every i; so r[toIndex mod n]
\* = items[fromIndex], and every element has the same cyclic successor in r
\* as in items.
C7_RotateToIndexIsRotation ==
  (rotCalled /\ Len(rotItems) > 0) =>
    LET n == Len(rotItems)
        offset == (((rotTo % n) - rotFrom) + n) % n
    IN /\ DOMAIN rotResult = 1..n
       /\ \A i \in 0..(n - 1) : rotResult[i + 1] = rotItems[((i - offset + n) % n) + 1]
       /\ rotResult[(rotTo % n) + 1] = rotItems[rotFrom + 1]
       /\ \A j \in 0..(n - 1) :
            LET i == (j + offset) % n
            IN /\ rotResult[i + 1] = rotItems[j + 1]
               /\ rotResult[((i + 1) % n) + 1] = rotItems[((j + 1) % n) + 1]

\* three distinct elements rotated to a negative target index
C7_Witness ==
  /\ rotCalled
  /\ rotItems = <<"a", "b", "c">>
  /\ rotFrom = 2
  /\ rotTo = -2
  /\ rotResult = <<"b", "c", "a">>

\* C8: for a non-empty array the result has the length of the input and the
\* same elements with the same multiplicities: nothing dropped, duplicated
\* or undefined.
C8_RotateToIndexIsBijection ==
  (rotCalled /\ Len(rotItems) > 0) =>
    /\ Len(rotResult) = Len(rotItems)
    /\ \A e \in Elements \cup {"undefined"} :
         occurrences(rotResult, e) = occurrences(rotItems, e)

\* an array with a repeated element rotated to a target index beyond its end
C8_Witness ==
  /\ rotCalled
  /\ rotItems = <<"a", "a", "b">>
  /\ rotFrom = 0
  /\ rotTo = 4
  /\ rotResult = <<"b", "a", "a">>


\* b is a of the same length, cyclically shifted
IsRotationOf(b, a) ==
  /\ Len(b) = Len(a)
  /\ Len(a) = 0 \/ \E k \in 0..(Len(a) - 1) :
                     \A i \in 0..(Len(a) - 1) : b[i + 1] = a[((i + k) % Len(a)) + 1]

\* the last key was a Tab that switched the mode
Pivoted == lastEvent = "Tab" /\ mode # prevMode

otherMode(m) == IF m = "songs" THEN "singers" ELSE "songs"

\* Tab was pressed on a selected performance that the lookup of the pivot
\* does not find in the (non-empty) target grouping
PivotedNotFound ==
  /\ lastEvent = "Tab"
  /\ prevItem # UndefinedItem
  /\ Len(groupingOf(otherMode(prevMode))) > 0
  /\ LET at == locate(prevItem, otherMode(prevMode), groupingOf(otherMode(prevMode)))
     IN at.baseX = -1 \/ at.baseY = -1

\* C10: when the selected performance is not found in the target grouping,
\* the pivot does not throw, switches the mode, displays the target grouping
\* in its own order, and leaves the cursor at (0,0) or inside the bounds of
\* that grouping.
C10_NotFoundFallsBack ==
  PivotedNotFound =>
    /\ ~threw
    /\ mode = otherMode(prevMode)
    /\ displayCategories = groupingOf(mode)
    /\ cursor = [x |-> 0, y |-> 0] \/ InBounds(displayCategories, cursor)

\* Tab was pressed while no performance was under the cursor, the target
\* grouping having categories to show
PivotedWithoutSelection ==
  /\ lastEvent = "Tab"
  /\ prevItem = UndefinedItem
  /\ Len(groupingOf(otherMode(prevMode))) > 0

\* C11: a Tab pressed while nothing is selected flips the mode and displays
\* the target grouping in its own order, and changes nothing else (the
\* groupings are still what the builder made).
C11_NoSelectionPivotFlipsMode ==
  PivotedWithoutSelection =>
    /\ ~threw
    /\ mode = otherMode(prevMode)
    /\ displayCategories = groupingOf(mode)
    /\ songCategories = songsData(songs)
    /\ singerCategories = singersData(songs, singers)

\* C12: nothing is fatal: no move and no pivot dispatched in a reachable
\* state of the React navigation ends in an exception.
C12_NothingFatal == ~threw

\* the cursor of the controller is inside its list
NavInBounds(categories, state) ==
  IF Len(categories) = 0 THEN state = [cursorX |-> 0, cursorY |-> 0]
  ELSE /\ 0 <= state.cursorX /\ state.cursorX < Len(categories)
       /\ LET n == Len(categories[state.cursorX + 1].items)
          IN IF n = 0 THEN state.cursorY = 0
             ELSE 0 <= state.cursorY /\ state.cursorY < n

UpdateEvents ==
  {"updateCategories(songs)", "updateCategories(singers)", "updateCategories([])"}

\* the list an updateCategories event passed
updatedTo(event) ==
  IF event = "updateCategories(songs)" THEN songCategories
  ELSE IF event = "updateCategories(singers)" THEN singerCategories
  ELSE <<>>

\* C13: after any sequence of arrow keys and updateCategories calls the
\* cursor of NavigationController is inside its list ((0,0) on the empty
\* list, item index 0 on an empty category); updateCategories stores the
\* list it is given and the listeners it notifies see the clamped cursor.
C13_ControllerCursorInBounds ==
  /\ NavInBounds(navCategories, navState)
  /\ lastEvent \in UpdateEvents =>
       /\ navCategories = updatedTo(lastEvent)
       /\ navCalls = 1
       /\ NavInBounds(navCategories, [cursorX |-> navNotified.cursorX,
                                      cursorY |-> navNotified.cursorY])
       /\ navNotified.cursorX = navState.cursorX
       /\ navNotified.cursorY = navState.cursorY

\* updateCategories has just pulled both indices of the cursor back into
\* a shorter list
C13_Witness ==
  /\ lastEvent \in UpdateEvents
  /\ Len(navCategories) > 0
  /\ navPrev.cursorX > navState.cursorX
  /\ navPrev.cursorY > navState.cursorY
  /\ navNotified.item # UndefinedItem

ArrowEvents == {"ArrowLeft", "ArrowRight", "ArrowUp", "ArrowDown"}

\* the last arrow key committed a move: the controller was enabled and
\* had a category to go to (left, right) or an item to go to (up, down)
NavCommitted ==
  /\ lastEvent \in ArrowEvents
  /\ isEnabled
  /\ IF lastEvent \in {"ArrowLeft", "ArrowRight"}
     THEN Len(navCategories) > 0
     ELSE Len(At(navCategories, navPrev.cursorX, UndefinedCategory).items) > 0

\* C14: every arrow key that commits a move runs exactly one notification
\* cycle, after the new cursor is stored: the listeners receive that
\* cursor and the item now under it (none when there is none), also when
\* the new cursor equals the old one.
C14_NotifiesOncePerMove ==
  (frontend = "d3" /\ NavCommitted) =>
    /\ navCalls = 1
    /\ navNotified.cursorX = navState.cursorX
    /\ navNotified.cursorY = navState.cursorY
    /\ navNotified.item = getCurrentItem(navCategories, navState)

\* a committed move that left the cursor where it was has notified, and
\* there is an item to pass
C14_Witness ==
  /\ frontend = "d3"
  /\ NavCommitted
  /\ lastEvent = "ArrowRight"
  /\ navPrev = navState
  /\ navCalls = 1
  /\ navNotified.item # UndefinedItem

\* C15: whenever the category under the cursor has no items, the item
\* index is 0, there is no current item, and moveUp and moveDown leave the
\* cursor where it is; in the hook (alone and inside the App) and in
\* NavigationController.
C15_EmptyCategory ==
  /\ frontend \in {"app", "hook"} =>
       LET onEmpty == /\ cursor.x < Len(displayCategories)
                      /\ itemsLengthOf(displayCategories, cursor.x) = 0
       IN onEmpty =>
            /\ cursor.y = 0
            /\ currentItem(displayCategories, cursor) = UndefinedItem
            /\ moveUp(displayCategories, cursor) = cursor
            /\ moveDown(displayCategories, cursor) = cursor
  /\ frontend = "d3" =>
       LET onEmpty == /\ navState.cursorX < Len(navCategories)
                      /\ itemsLengthOf(navCategories, navState.cursorX) = 0
       IN onEmpty =>
            /\ navState.cursorY = 0
            /\ getCurrentItem(navCategories, navState) = UndefinedItem
            /\ navMoveUp(navCategories, navState).state = navState
            /\ navMoveDown(navCategories, navState).state = navState

\* C16: with zero categories the four moves are no-ops, the cursor is the
\* (0,0) sentinel and there is neither a current category nor a current
\* item; in the hook and in NavigationController.
C16_EmptyGrouping ==
  /\ (frontend \in {"app", "hook"} /\ Len(displayCategories) = 0) =>
       /\ cursor = [x |-> 0, y |-> 0]
       /\ moveLeft(displayCategories, cursor) = cursor
       /\ moveRight(displayCategories, cursor) = cursor
       /\ moveUp(displayCategories, cursor) = cursor
       /\ moveDown(displayCategories, cursor) = cursor
       /\ At(displayCategories, cursor.x, UndefinedCategory) = UndefinedCategory
       /\ currentItem(displayCategories, cursor) = UndefinedItem
  /\ (frontend = "d3" /\ Len(navCategories) = 0) =>
       /\ navState = [cursorX |-> 0, cursorY |-> 0]
       /\ navMoveLeft(navCategories, navState).state = navState
       /\ navMoveRight(navCategories, navState).state = navState
       /\ navMoveUp(navCategories, navState).state = navState
       /\ navMoveDown(navCategories, navState).state = navState
       /\ getCurrentItem(navCategories, navState) = UndefinedItem
       /\ lastEvent \in ArrowEvents => navCalls = 0

\* the hook has handled ArrowRight on a list without categories
C16_Witness ==
  /\ frontend = "hook"
  /\ Len(displayCategories) = 0
  /\ lastEvent = "ArrowRight"
  /\ cursor = [x |-> 0, y |-> 0]

\* useData has built its groupings from a non-empty video list
LoadedFromVideos ==
  /\ frontend = "build"
  /\ ~loading
  /\ backend.variant \in {"singers", "master"}
  /\ Len(backend.videos) > 0

\* the places (category, position) at which a grouping lists a song
placesOf(categories, song) ==
  {<<c, k>> \in (1..Len(categories)) \X (1..MaxVideos + 1) :
     k <= Len(categories[c].items) /\ categories[c].items[k] = song}

\* C17: the groupings useData builds from a video list hold every
\* performance exactly once in the song-centric grouping and exactly once
\* in the singer-centric grouping.
C17_GroupingComplete ==
  LoadedFromVideos =>
    \A k \in 1..Len(songs) :
      /\ Cardinality(placesOf(songCategories, songs[k])) = 1
      /\ Cardinality(placesOf(singerCategories, songs[k])) = 1

\* useData has built its groupings from what the backend answered
Loaded ==
  /\ frontend = "build"
  /\ ~loading
  /\ backend.variant \in {"singers", "master"}

\* the position of the first song with that title
firstWithTitle(title) ==
  CHOOSE k \in 1..Len(songs) :
    /\ songs[k].title = title
    /\ \A j \in 1..(k - 1) : songs[j].title # title

\* the position of a song in the song list (the model's song id)
positionOf(song) == song.id

\* C18: the song-centric grouping has exactly one category per distinct
\* song title, the categories in the order in which their titles first
\* occur in the song list, each listing all the songs of its title and
\* only those, in the order of the song list.
C18_SongGroupingOrder ==
  Loaded =>
    /\ \A k \in 1..Len(songs) :
         \E c \in 1..Len(songCategories) : songCategories[c].title = songs[k].title
    /\ \A c \in 1..Len(songCategories) :
         LET category == songCategories[c]
             items == category.items
         IN /\ category.id = <<"cat_song", category.title>>
            /\ Len(items) > 0
            /\ \A d \in (c + 1)..Len(songCategories) :
                 /\ songCategories[d].title # category.title
                 /\ firstWithTitle(category.title)
                      < firstWithTitle(songCategories[d].title)
            /\ \A i \in 1..Len(items) :
                 /\ items[i] = songs[positionOf(items[i])]
                 /\ items[i].title = category.title
                 /\ \A j \in (i + 1)..Len(items) :
                      positionOf(items[i]) < positionOf(items[j])
            /\ \A k \in 1..Len(songs) :
                 songs[k].title = category.title =>
                   \E i \in 1..Len(items) : items[i] = songs[k]

\* three videos were loaded whose first and last share a title: two
\* categories, the first one holding the first and the last song
C18_Witness ==
  /\ Loaded
  /\ Len(backend.videos) = 3
  /\ Len(songCategories) = 2
  /\ Len(songCategories[1].items) = 2
  /\ songCategories[1].items[1] = songs[1]
  /\ songCategories[1].items[2] = songs[3]
  /\ songCategories[2].items = <<songs[2]>>

\* the position of the first song of that singer
firstOfSinger(id) ==
  CHOOSE k \in 1..Len(songs) :
    /\ songs[k].singer_id = id
    /\ \A j \in 1..(k - 1) : songs[j].singer_id # id

\* C19: the singer-centric grouping has exactly one category per distinct
\* singer_id occurring among the songs, the categories in the order in
\* which their singers first occur in the song list, each listing all the
\* songs of its singer and only those, in the order of the song list.
\* Stated for the /videos and /singers endpoints and a non-empty video list.
C19_SingerGroupingOrder ==
  (LoadedFromVideos /\ backend.variant = "singers") =>
    /\ \A k \in 1..Len(songs) :
         \E c \in 1..Len(singerCategories) :
           singerCategories[c].id = <<"cat_singer", songs[k].singer_id>>
    /\ \A c \in 1..Len(singerCategories) :
         LET category == singerCategories[c]
             items == category.items
             singerId == category.id[2]
         IN /\ Len(items) > 0
            /\ \A d \in (c + 1)..Len(singerCategories) :
                 /\ singerCategories[d].id # category.id
                 /\ Len(singerCategories[d].items) > 0
                 /\ firstOfSinger(singerId) < firstOfSinger(singerCategories[d].id[2])
            /\ \A i \in 1..Len(items) :
                 /\ items[i] = songs[positionOf(items[i])]
                 /\ items[i].singer_id = singerId
                 /\ \A j \in (i + 1)..Len(items) :
                      positionOf(items[i]) < positionOf(items[j])
            /\ \A k \in 1..Len(songs) :
                 songs[k].singer_id = singerId =>
                   \E i \in 1..Len(items) : items[i] = songs[k]

\* no two items of the category are the same performance
DistinctPairs(category) ==
  \A i, j \in 1..Len(category.items) :
    SamePerformance(category.items[i], category.items[j]) => i = j

\* C20: in every category of either grouping built from a video list, no
\* two items have the same (title, singer_id) pair, so that the lookup of
\* the pivot designates exactly one item.
\* Stated for the /videos and /singers endpoints and a non-empty video list.
C20_UniquePairInCategory ==
  (LoadedFromVideos /\ backend.variant = "singers") =>
    /\ \A c \in 1..Len(songCategories) : DistinctPairs(songCategories[c])
    /\ \A c \in 1..Len(singerCategories) : DistinctPairs(singerCategories[c])

\* C21: for every array and every index i of it, rotateToIndex(items, i, i)
\* is items, element by element.
C21_IdentityRotation ==
  (rotCalled /\ Len(rotItems) > 0 /\ rotTo = rotFrom) =>
    /\ Len(rotResult) = Len(rotItems)
    /\ \A i \in 1..Len(rotItems) : rotResult[i] = rotItems[i]

\* three distinct elements rotated from their last index to itself
C21_Witness ==
  /\ rotCalled
  /\ rotItems = <<"a", "b", "c">>
  /\ rotFrom = 2
  /\ rotTo = 2
  /\ rotResult = <<"a", "b", "c">>

\* C22: a call of rotateToIndex leaves its input array as it was, and the
\* call on an empty array returns that array.
C22_RotateLeavesInput ==
  /\ [][rotCalled' => rotItems' = rotItems]_vars
  /\ [](rotCalled /\ Len(rotItems) = 0 =>
          /\ rotResult = rotItems
          /\ rotateToIndexReturnsInput(rotItems, rotFrom, rotTo))

\* a call has returned an array that differs from its input
C22_Witness ==
  /\ rotCalled
  /\ rotItems = <<"a", "b", "c">>
  /\ rotResult = <<"c", "a", "b">>

\* where the lookup of the last pivot finds the performance that was
\* selected, in the grouping of the mode pivoted to
foundAt == locate(prevItem, otherMode(prevMode), groupingOf(otherMode(prevMode)))

\* Tab was pressed on a selected performance that the lookup finds in the
\* target grouping, the cursor column being one of that grouping's
PivotedFound ==
  /\ lastEvent = "Tab"
  /\ prevItem # UndefinedItem
  /\ Len(groupingOf(otherMode(prevMode))) > 0
  /\ foundAt.baseX # -1
  /\ foundAt.baseY # -1
  /\ cursor.x < Len(groupingOf(otherMode(prevMode)))

\* the category is the one of the performance in that mode
categoryOf(category, item, m) ==
  IF m = "songs" THEN category.title = item.title
  ELSE category.id = <<"cat_singer", item.singer_id>>

\* C23: when the pivot finds the selected performance in the target
\* grouping and the cursor column exists there, the displayed array is a
\* cyclic rotation of the target grouping's categories with the category
\* of the selection at index cursor.x, and in that category the selected
\* performance is at index cursor.y mod itemCount, the items being a
\* cyclic rotation of the category's items.
C23_PivotPlacement ==
  PivotedFound =>
    LET G == groupingOf(otherMode(prevMode))
        n == Len(G)
        shown == displayCategories[cursor.x + 1]
        base == G[foundAt.baseX + 1]
        itemCount == Len(base.items)
    IN /\ ~threw
       /\ mode = otherMode(prevMode)
       /\ Len(displayCategories) = n
       /\ \A i \in 0..(n - 1) :
            LET src == G[((i - cursor.x + foundAt.baseX + n) % n) + 1]
                d == displayCategories[i + 1]
            IN IF i = cursor.x THEN d.id = src.id /\ d.title = src.title
               ELSE d = src
       /\ categoryOf(shown, prevItem, mode)
       /\ shown.id = base.id
       /\ itemCount > 0
       /\ IsRotationOf(shown.items, base.items)
       /\ SamePerformance(shown.items[(cursor.y % itemCount) + 1], prevItem)
       /\ shown.items[(cursor.y % itemCount) + 1] = base.items[foundAt.baseY + 1]

\* songs [A: (A,s1), (A,Unknown); B: (B,s1)] with the cursor at (0,1) were
\* pivoted to the singer grouping: the category of Unknown is at index 0
\* and its first item is (A,Unknown)
C23_Witness ==
  /\ PivotedFound
  /\ mode = "singers"
  /\ cursor = [x |-> 0, y |-> 1]
  /\ Len(songCategories) = 2
  /\ Len(songCategories[1].items) = 2
  /\ songCategories[1].title = "A"
  /\ prevItem = songCategories[1].items[2]
  /\ prevItem.singer_id = "Unknown"
  /\ Len(displayCategories) = 2
  /\ displayCategories[1].id = <<"cat_singer", "Unknown">>
  /\ displayCategories[1].items[1] = prevItem
  /\ displayCategories[1] # singerCategories[1]

\* C24: no pivot changes the cursor: whatever branch handlePivot takes,
\* cursor.x and cursor.y after Tab are what they were before it.
C24_PivotKeepsCursor ==
  [][lastEvent' = "Tab" => cursor' = cursor]_vars

\* a pivot has rotated the target grouping under a cursor away from the
\* origin
C24_Witness ==
  /\ Pivoted
  /\ displayRef = "fresh"
  /\ cursor.x > 0
  /\ cursor.y > 0
  /\ prevItem # UndefinedItem

\* C25: in the hook of src/hooks, with at least one category, moveRight
\* takes categoryIndex to (x + 1) mod count and moveLeft to (x - 1) mod
\* count: from the last category to index 0, from index 0 to the last.
C25_LegacyHorizontalWrap ==
  (frontend = "legacy" /\ Len(displayCategories) > 0) =>
    LET count == Len(displayCategories) IN
    /\ lastEvent = "ArrowRight" => cursor.x = (prevCursor.x + 1) % count
    /\ lastEvent = "ArrowLeft" => cursor.x = (prevCursor.x - 1) % count

\* C26: in the hook of src/hooks no sequence of moves takes the cursor out
\* of bounds: x and y are never negative and never beyond the last valid
\* index, and a move made on an empty category list or on an empty
\* current category leaves the cursor where it was.
C26_LegacyCursorInBounds ==
  frontend = "legacy" =>
    /\ cursor.x >= 0
    /\ cursor.y >= 0
    /\ Len(displayCategories) > 0 =>
         /\ cursor.x < Len(displayCategories)
         /\ itemsLengthOf(displayCategories, cursor.x) > 0 =>
              cursor.y < itemsLengthOf(displayCategories, cursor.x)
    /\ (/\ lastEvent \in ArrowEvents
        /\ \/ Len(displayCategories) = 0
           \/ itemsLengthOf(displayCategories, prevCursor.x) = 0)
       => cursor = prevCursor

\* the lookup of the pivot finds the item in the grouping of mode m
lookupFinds(item, m) ==
  LET at == locate(item, m, groupingOf(m))
  IN at.baseX # -1 /\ at.baseY # -1

\* C27: in the groupings useData builds, every performance listed in one
\* grouping is found by the lookup of the pivot in the other one, so that
\* the not-found branch of the pivot cannot be taken.  Stated for groupings
\* that both have categories (the pivot returns early on an empty one).
C27_LookupSucceeds ==
  (Loaded /\ Len(songCategories) > 0 /\ Len(singerCategories) > 0) =>
    /\ \A c \in 1..Len(songCategories) :
         \A i \in 1..Len(songCategories[c].items) :
           lookupFinds(songCategories[c].items[i], "singers")
    /\ \A c \in 1..Len(singerCategories) :
         \A i \in 1..Len(singerCategories[c].items) :
           lookupFinds(singerCategories[c].items[i], "songs")

\* the displayed array holds the categories of the grouping, cyclically
\* shifted, each with the grouping's items, cyclically shifted
ShowsGrouping(disp, G) ==
  /\ Len(disp) = Len(G)
  /\ \E k \in 0..(Len(G) - 1) :
       \A i \in 0..(Len(G) - 1) :
         LET src == G[((i + k) % Len(G)) + 1]
             d == disp[i + 1]
         IN /\ d.id = src.id
            /\ d.title = src.title
            /\ IsRotationOf(d.items, src.items)

\* C28: mode is "songs" or "singers"; whenever categories are displayed
\* they are the categories of the grouping mode names, in a cyclic
\* rotation of its order; mode changes only in a pivot, and only together
\* with the displayed array.
C28_ModeMatchesDisplay ==
  /\ [](/\ mode \in {"songs", "singers"}
        /\ Len(displayCategories) > 0 =>
             ShowsGrouping(displayCategories, groupingOf(mode)))
  /\ [][mode' # mode =>
          /\ lastEvent' = "Tab"
          /\ displayCategories' # displayCategories]_vars

\* two pivots in a row have brought the mode back to "songs", the song
\* grouping being displayed in another order than it was built in
C28_Witness ==
  /\ Pivoted
  /\ tabRun = 2
  /\ mode = "songs"
  /\ displayRef = "fresh"
  /\ Len(displayCategories) >= 2
  /\ displayCategories[1].id # songCategories[1].id

\* the arrow key would move the cursor of an enabled controller
NavCanMove(key) ==
  IF key \in {"ArrowLeft", "ArrowRight"}
  THEN Len(navCategories) > 0
  ELSE Len(At(navCategories, navState.cursorX, UndefinedCategory).items) > 0

\* C29: while the controller is disabled an arrow key changes neither
\* cursorX nor cursorY and calls no listener; enable() and disable()
\* themselves move nothing and call no listener (nothing is replayed);
\* an arrow key on an enabled controller that has somewhere to go calls
\* the listeners once with the state it stored.
C29_DisabledIsInert ==
  /\ [][(lastEvent' \in ArrowEvents /\ ~isEnabled) =>
          /\ navState' = navState
          /\ navCalls' = 0
          /\ navNotified' = navNotified]_vars
  /\ [][lastEvent' \in {"enable", "disable"} =>
          /\ navState' = navState
          /\ navCalls' = 0
          /\ navNotified' = navNotified]_vars
  /\ [][(lastEvent' \in ArrowEvents /\ isEnabled /\ NavCanMove(lastEvent')) =>
          /\ navCalls' = 1
          /\ navNotified'.cursorX = navState'.cursorX
          /\ navNotified'.cursorY = navState'.cursorY]_vars

\* ArrowRight has arrived at a disabled controller that holds at least two
\* categories and has not moved it
C29_Witness ==
  /\ frontend = "d3"
  /\ ~isEnabled
  /\ lastEvent = "ArrowRight"
  /\ Len(navCategories) >= 2
  /\ navState = navPrev
  /\ navCalls = 0

\* s is an initial segment of t
IsPrefix(s, t) == Len(s) <= Len(t) /\ \A i \in 1..Len(s) : s[i] = t[i]

\* C30: insertVideos attempts the videos first in input order and each at
\* least once before it returns; a video whose attempt ended without code
\* 500 is never attempted again, and the attempted video is appended to
\* the queue exactly when the answer had code 500; the yielded count is
\* the number of videos waiting (the one about to be attempted included)
\* and never increases; the generator has returned exactly when its loop
\* test found the queue empty, the count then being 0, and the progress
\* loop is over only then (or at once, for an empty input); the progress
\* loop does end.
C30_InsertionQueue ==
  /\ [](frontend = "insert" =>
          /\ IsPrefix(firstAttempts, videos)
          /\ generator = "returned" => firstAttempts = videos
          /\ generator = "awaiting" => video \notin dropped
          /\ generator = "yielded" => yielded = Len(queue) /\ Len(queue) > 0
          /\ generator = "awaiting" => yielded = Len(queue) + 1
          /\ yielded <= prevYielded
          /\ generator = "returned" => Len(queue) = 0 /\ yielded = 0
          /\ progress = "done" =>
               /\ queueStatus = 0
               /\ Len(queue) = 0
               /\ IF Len(videos) = 0
                  THEN generator = "created"
                  ELSE generator = "returned")
  /\ [][(generator = "awaiting" /\ generator' # "awaiting") =>
          queue' = IF response' = "500" THEN Append(queue, video) ELSE queue]_vars
  /\ <>(progress = "done")

\* a video answered with code 500 is back at the tail of the queue, behind
\* a video still waiting, after another one was dropped
C30_Witness ==
  /\ frontend = "insert"
  /\ generator = "yielded"
  /\ response = "500"
  /\ Len(queue) >= 2
  /\ queue[Len(queue)] = video
  /\ dropped # {}

====
